---------------------------- MODULE Spec2Model ----------------------------
(***************************************************************************)
(* Model of the risk manager, position ledger and scan loop of             *)
(* polyWantsACracker (src/risk_manager.py, src/bot.py, src/btc_strategy.py,*)
(* src/weather_strategy.py, src/config.py).                                *)
(*                                                                         *)
(* Units.  Money is an integer number of cents; a probability is an        *)
(* integer number of percent.  Intermediate results of the bet sizing are  *)
(* exact rationals <<n, d>> (d > 0, lowest terms), so the final            *)
(* round(bet_usd, 2) of the code is a real rounding step of the model.     *)
(* Binary floating-point error of the Python floats is not modelled: the   *)
(* arithmetic is exact and round() rounds half to even, as Python does on  *)
(* an exact tie.                                                           *)
(***************************************************************************)
EXTENDS Integers, Sequences, FiniteSets, TLC

VARIABLES
    running,        \* TRUE while a bot process (with its RiskManager) is alive
    paper,          \* config.PAPER_TRADING of the running process
    bankroll,       \* RiskManager.bankroll, cents
    positions,      \* RiskManager.positions, a sequence of Position records
    trade_history,  \* RiskManager.trade_history
    journal,        \* the lines of logs/trades.jsonl
    disk,           \* the file logs/state.json
    clock,          \* number of datetime.now() readings so far
    started,        \* the ledger as RiskManager.__init__ left it
    scan,           \* PollyBot.run: the cycle, and the place in its market loops
    lastCall        \* the last call made and what it returned, raised or logged

vars == <<running, paper, bankroll, positions, trade_history, journal, disk,
          clock, started, scan, lastCall>>

----------------------------------------------------------------------------
(* Program constants (src/config.py) in the units above.                   *)

INITIAL_BANKROLL == 100000

KELLY_FRACTION_PCT == 50

MAX_SINGLE_BET_PCT == 5

MIN_EDGE_THRESHOLD == 3

MAX_OPEN_POSITIONS == 10

MIN_BET_SIZE_USD == 100

EXPOSURE_CAP_PCT == 50

----------------------------------------------------------------------------
(* Bounds of the model.                                                    *)

\* Ledger mutations (open_position / close_position calls) in one behaviour.
MaxMutations == 3

\* The same, in the behaviours whose file writes may fail.
MaxFaultMutations == 2

\* Markets a catalogue returns to one scan of the bot's loop.
MaxMarkets == 3

\* Scan cycles of one run of the bot's loop.
MaxCycles == 4

\* Length of the close series enumerated exhaustively for the indicators.
MaxBars == 3

----------------------------------------------------------------------------
(* Exact rational arithmetic.                                              *)

Abs(x) == IF x < 0 THEN -x ELSE x

RECURSIVE GCD(_, _)
GCD(a, b) == IF b = 0 THEN a ELSE GCD(b, a % b)

Rat(n, d) ==
    LET s == IF d < 0 THEN -1 ELSE 1
        g == GCD(Abs(n), Abs(d))
    IN  IF n = 0 THEN <<0, 1>> ELSE <<(s * n) \div g, (s * d) \div g>>

RInt(n) == <<n, 1>>

RAdd(x, y) == Rat(x[1] * y[2] + y[1] * x[2], x[2] * y[2])

RSub(x, y) == Rat(x[1] * y[2] - y[1] * x[2], x[2] * y[2])

RMul(x, y) == Rat(x[1] * y[1], x[2] * y[2])

RDiv(x, y) == Rat(x[1] * y[2], x[2] * y[1])

RLt(x, y) == x[1] * y[2] < y[1] * x[2]

RLe(x, y) == x[1] * y[2] <= y[1] * x[2]

RMin(x, y) == IF RLe(x, y) THEN x ELSE y

Pct(p) == Rat(p, 100)

\* Python's round(x, 2) on an amount in dollars: the nearest cent, a tie to
\* the even cent.  x is a rational number of cents; the result is an integer.
Round2(x) ==
    LET fl  == x[1] \div x[2]
        rem == x[1] % x[2]
    IN  IF 2 * rem < x[2] THEN fl
        ELSE IF 2 * rem > x[2] THEN fl + 1
        ELSE IF fl % 2 = 0 THEN fl ELSE fl + 1

----------------------------------------------------------------------------
(* RiskManager.kelly_size  (src/risk_manager.py:56-89)                     *)

\* Mutant of kelly_size: the full Kelly fraction is returned whatever its sign.
kelly_size_unchecked(our_prob, market_prob, fraction) ==
    IF market_prob <= 0 \/ market_prob >= 100 \/ our_prob <= 0 \/ our_prob >= 100
    THEN RInt(0)
    ELSE LET b == RSub(RDiv(RInt(1), Pct(market_prob)), RInt(1))
             p == Pct(our_prob)
             q == RSub(RInt(1), p)
         IN  RMul(RDiv(RSub(RMul(p, b), q), b), fraction)

\* Mutant of kelly_size: the fraction is not applied.
kelly_size_full(our_prob, market_prob, fraction) ==
    IF market_prob <= 0 \/ market_prob >= 100 \/ our_prob <= 0 \/ our_prob >= 100
    THEN RInt(0)
    ELSE LET b == RSub(RDiv(RInt(1), Pct(market_prob)), RInt(1))
             p == Pct(our_prob)
             q == RSub(RInt(1), p)
             kelly_full == RDiv(RSub(RMul(p, b), q), b)
         IN  IF RLe(kelly_full, RInt(0)) THEN RInt(0) ELSE kelly_full

kelly_size(our_prob, market_prob, fraction) ==
    IF market_prob <= 0 \/ market_prob >= 100 \/ our_prob <= 0 \/ our_prob >= 100
    THEN RInt(0)
    ELSE LET b == RSub(RDiv(RInt(1), Pct(market_prob)), RInt(1))
         IN  IF RLe(b, RInt(0)) THEN RInt(0)
             ELSE LET p == Pct(our_prob)
                      q == RSub(RInt(1), p)
                      kelly_full == RDiv(RSub(RMul(p, b), q), b)
                  IN  IF RLe(kelly_full, RInt(0)) THEN RInt(0)
                      ELSE RMul(kelly_full, fraction)

----------------------------------------------------------------------------
(* RiskManager.calculate_bet_size  (src/risk_manager.py:93-135)            *)

OpenPositions(ps) == SelectSeq(ps, LAMBDA p : p.status = "open")

RECURSIVE SumSize(_)
SumSize(ps) == IF ps = <<>> THEN 0 ELSE Head(ps).size_usd + SumSize(Tail(ps))

TotalExposure(ps) == SumSize(OpenPositions(ps))

\* Mutant of Rejected: the rejection carries no reason.
RejectedWithoutReason(kf, why) == [stake |-> 0, kf |-> kf, reason |-> ""]

Rejected(kf, why) == [stake |-> 0, kf |-> kf, reason |-> why]

\* Mutant of AtPositionLimit: the number of open positions is not limited.
AtPositionLimitNever(open_positions) == FALSE

\* `len(open_positions) >= config.MAX_OPEN_POSITIONS`
AtPositionLimit(open_positions) == Len(open_positions) >= MAX_OPEN_POSITIONS

\* Mutant of calculate_bet_size: the single-bet cap is not applied.
calculate_bet_size_uncapped(bank, ps, our_prob, market_prob) ==
    LET kf == kelly_size(our_prob, market_prob, Pct(KELLY_FRACTION_PCT))
    IN  IF our_prob - market_prob < MIN_EDGE_THRESHOLD
        THEN Rejected(RInt(0), "edge below threshold")
        ELSE IF RLe(kf, RInt(0)) THEN Rejected(RInt(0), "kelly says don't bet")
        ELSE [stake |-> Round2(RMul(RInt(bank), kf)), kf |-> kf, reason |-> ""]

\* Mutant of calculate_bet_size: the stake is held neither to the single-bet
\* cap nor to the exposure cap.
calculate_bet_size_unbounded(bank, ps, our_prob, market_prob) ==
    LET edge == our_prob - market_prob
        kf == kelly_size(our_prob, market_prob, Pct(KELLY_FRACTION_PCT))
        kelly_bet == RMul(RInt(bank), kf)
    IN  IF edge < MIN_EDGE_THRESHOLD THEN Rejected(RInt(0), "edge below threshold")
        ELSE IF RLe(kf, RInt(0)) THEN Rejected(RInt(0), "kelly says don't bet")
        ELSE IF RLt(kelly_bet, RInt(MIN_BET_SIZE_USD)) THEN Rejected(kf, "below minimum")
        ELSE IF AtPositionLimit(OpenPositions(ps))
             THEN Rejected(kf, "max open positions")
        ELSE [stake |-> Round2(kelly_bet), kf |-> kf, reason |-> ""]

\* Mutant of calculate_bet_size: the stake is sized from the configured
\* bankroll, not from the current one.
calculate_bet_size_on_initial_bankroll(bank, ps, our_prob, market_prob) ==
    LET kf == kelly_size(our_prob, market_prob, Pct(KELLY_FRACTION_PCT))
        max_bet == RMul(RInt(INITIAL_BANKROLL), Pct(MAX_SINGLE_BET_PCT))
        kelly_bet == RMul(RInt(INITIAL_BANKROLL), kf)
        capped == IF RLt(max_bet, kelly_bet) THEN max_bet ELSE kelly_bet
    IN  IF our_prob - market_prob < MIN_EDGE_THRESHOLD
        THEN Rejected(RInt(0), "edge below threshold")
        ELSE IF RLe(kf, RInt(0)) THEN Rejected(RInt(0), "kelly says don't bet")
        ELSE IF AtPositionLimit(OpenPositions(ps))
             THEN Rejected(kf, "max open positions")
        ELSE [stake |-> Round2(capped), kf |-> kf, reason |-> ""]

\* Mutant of calculate_bet_size: total exposure is not checked.
calculate_bet_size_without_exposure_cap(bank, ps, our_prob, market_prob) ==
    LET edge == our_prob - market_prob
        kf == kelly_size(our_prob, market_prob, Pct(KELLY_FRACTION_PCT))
        max_bet == RMul(RInt(bank), Pct(MAX_SINGLE_BET_PCT))
        kelly_bet == RMul(RInt(bank), kf)
        capped == IF RLt(max_bet, kelly_bet) THEN max_bet ELSE kelly_bet
    IN  IF edge < MIN_EDGE_THRESHOLD THEN Rejected(RInt(0), "edge below threshold")
        ELSE IF RLe(kf, RInt(0)) THEN Rejected(RInt(0), "kelly says don't bet")
        ELSE IF RLt(capped, RInt(MIN_BET_SIZE_USD)) THEN Rejected(kf, "below minimum")
        ELSE IF AtPositionLimit(OpenPositions(ps))
             THEN Rejected(kf, "max open positions")
        ELSE [stake |-> Round2(capped), kf |-> kf, reason |-> ""]

calculate_bet_size(bank, ps, our_prob, market_prob) ==
    LET edge == our_prob - market_prob
        kf == kelly_size(our_prob, market_prob, Pct(KELLY_FRACTION_PCT))
        max_bet == RMul(RInt(bank), Pct(MAX_SINGLE_BET_PCT))
        kelly_bet == RMul(RInt(bank), kf)
        capped == IF RLt(max_bet, kelly_bet) THEN max_bet ELSE kelly_bet
        open_positions == OpenPositions(ps)
        total_exposure == RInt(SumSize(open_positions))
        cap == RMul(RInt(bank), Pct(EXPOSURE_CAP_PCT))
        remaining == RSub(cap, total_exposure)
    IN  IF edge < MIN_EDGE_THRESHOLD THEN Rejected(RInt(0), "edge below threshold")
        ELSE IF RLe(kf, RInt(0)) THEN Rejected(RInt(0), "kelly says don't bet")
        ELSE IF RLt(capped, RInt(MIN_BET_SIZE_USD)) THEN Rejected(kf, "below minimum")
        ELSE IF AtPositionLimit(open_positions)
             THEN Rejected(kf, "max open positions")
        ELSE IF RLt(cap, RAdd(total_exposure, capped))
             THEN IF RLt(remaining, RInt(MIN_BET_SIZE_USD))
                  THEN Rejected(kf, "total exposure")
                  ELSE [stake |-> Round2(RMin(capped, remaining)), kf |-> kf,
                        reason |-> ""]
        ELSE [stake |-> Round2(capped), kf |-> kf, reason |-> ""]

----------------------------------------------------------------------------
(* Position  (src/risk_manager.py:19-39)                                   *)
(* The free-text fields market_question and reasoning are carried by       *)
(* market_id: they are copied along with it and read by no decision.       *)

\* datetime.now(): the reading that follows `c` earlier readings.
Now(c) == c + 1

\* Position(**d): the dataclass constructor applied to a dict.  A field the
\* dict leaves out takes its default; __post_init__ stamps the creation time
\* when the timestamp is unset (0 stands for the empty string).
Position(d, now) ==
    LET ts == IF "timestamp" \in DOMAIN d THEN d.timestamp ELSE 0
    IN  [market_id          |-> d.market_id,
         token_id           |-> d.token_id,
         side               |-> d.side,
         entry_price        |-> d.entry_price,
         size_usd           |-> d.size_usd,
         shares             |-> d.shares,
         our_probability    |-> d.our_probability,
         market_probability |-> d.market_probability,
         edge               |-> d.edge,
         kelly_fraction     |-> d.kelly_fraction,
         strategy           |-> d.strategy,
         timestamp          |-> IF ts = 0 THEN now ELSE ts,
         status             |-> IF "status" \in DOMAIN d THEN d.status ELSE "open"]

\* dataclasses.asdict(position): a dict with one key per field.
asdict(p) == [f \in DOMAIN p |-> p[f]]

----------------------------------------------------------------------------
(* Persistence  (src/risk_manager.py:212-249)                              *)

\* What the environment does to the two file writes of one ledger mutation.
\*   ok             both writes succeed
\*   journal_error  appending to trades.jsonl raises OSError
\*   snapshot_error opening state.json for writing raises OSError
\*   crash          the process dies after open(state_file, "w") truncated
\*                  the file and before json.dump wrote all of it
PersistOutcomes == {"ok", "journal_error", "snapshot_error", "crash"}

NoFile == [kind |-> "absent", bankroll |-> 0, positions |-> <<>>,
           trade_history |-> <<>>]

\* An empty or partially written state.json: not a JSON document.
TornFile == [kind |-> "torn", bankroll |-> 0, positions |-> <<>>,
             trade_history |-> <<>>]

\* Mutant of StateDocument: the snapshot is written without the history.
StateDocumentWithoutHistory(bank, ps, th) ==
    [kind          |-> "complete",
     bankroll      |-> bank,
     positions     |-> [i \in 1..Len(ps) |-> asdict(ps[i])],
     trade_history |-> <<>>]

\* The document _save_state dumps.
StateDocument(bank, ps, th) ==
    [kind          |-> "complete",
     bankroll      |-> bank,
     positions     |-> [i \in 1..Len(ps) |-> asdict(ps[i])],
     trade_history |-> th]

\* state.json after _save_state under persistence outcome `po`.
_save_state(file, bank, ps, th, po) ==
    CASE po = "ok"    -> StateDocument(bank, ps, th)
      [] po = "crash" -> TornFile
      [] OTHER        -> file

\* trades.jsonl after _log_trade under persistence outcome `po`.
\* `extra` is a record whose fields record.update(extra) adds to the line.
_log_trade(lines, action, position, extra, now, po) ==
    IF po = "journal_error" THEN lines
    ELSE Append(lines, extra @@ [action    |-> action,
                                 timestamp |-> now,
                                 position  |-> asdict(position)])

\* How the call ends under persistence outcome `po`.
CallOutcome(po) ==
    CASE po = "ok"    -> "returned"
      [] po = "crash" -> "crashed"
      [] OTHER        -> "raised"

\* The fields of Position without a default, and all of them.
RequiredFields ==
    {"market_id", "token_id", "side", "entry_price", "size_usd", "shares",
     "our_probability", "market_probability", "edge", "kelly_fraction", "strategy"}

PositionFields == RequiredFields \cup {"timestamp", "status"}

\* Position(**d) returns: d has every required field and no unknown key
\* (otherwise the constructor raises TypeError).
Buildable(d) == RequiredFields \subseteq DOMAIN d /\ DOMAIN d \subseteq PositionFields

\* A record without its field f: a snapshot record written without it.
Without(d, f) == [k \in DOMAIN d \ {f} |-> d[k]]

\* Mutant of _load_state: the snapshot's bankroll is not taken over.
_load_state_keeping_bankroll(file, bank, now) ==
    IF file.kind = "complete"
          /\ \A i \in 1..Len(file.positions) : Buildable(file.positions[i])
    THEN [bankroll      |-> bank,
          positions     |-> [i \in 1..Len(file.positions) |->
                                Position(file.positions[i], now)],
          trade_history |-> file.trade_history,
          loaded        |-> TRUE]
    ELSE [bankroll |-> bank, positions |-> <<>>, trade_history |-> <<>>,
          loaded |-> FALSE]

\* RiskManager._load_state: the ledger after loading `file` into a manager
\* whose constructor set bankroll `bank`, no positions and no history.
\* The three assignments run in order inside one try block: when a position
\* record cannot be built the bankroll has already been assigned, the
\* positions and the history have not, and the exception is logged.
_load_state(file, bank, now) ==
    IF file.kind # "complete"
    THEN [bankroll |-> bank, positions |-> <<>>, trade_history |-> <<>>,
          loaded |-> FALSE]
    ELSE IF \A i \in 1..Len(file.positions) : Buildable(file.positions[i])
    THEN [bankroll      |-> file.bankroll,
          positions     |-> [i \in 1..Len(file.positions) |->
                                Position(file.positions[i], now)],
          trade_history |-> file.trade_history,
          loaded        |-> TRUE]
    ELSE [bankroll |-> file.bankroll, positions |-> <<>>,
          trade_history |-> <<>>, loaded |-> FALSE]

\* RiskManager.__init__: `arg` is <<>> for None, <<b>> for a number.
ConstructorBankroll(arg) ==
    IF arg = <<>> \/ arg = <<0>> THEN INITIAL_BANKROLL ELSE arg[1]

----------------------------------------------------------------------------
(* RiskManager.get_stats  (src/risk_manager.py:191-208)                    *)

\* `t.get("pnl", 0)`
PnlOf(t) == IF "pnl" \in DOMAIN t THEN t.pnl ELSE 0

RECURSIVE SumPnl(_)
SumPnl(th) == IF th = <<>> THEN 0 ELSE PnlOf(Head(th)) + SumPnl(Tail(th))

get_stats(bank, ps, th) ==
    LET open_pos == SelectSeq(ps, LAMBDA p : p.status = "open")
        closed_pos == SelectSeq(ps, LAMBDA p : p.status = "closed")
        wins == Cardinality({i \in 1..Len(th) : PnlOf(th[i]) > 0})
        losses == Cardinality({i \in 1..Len(th) : PnlOf(th[i]) <= 0})
    IN  [bankroll       |-> bank,
         open_positions |-> Len(open_pos),
         total_exposure |-> SumSize(open_pos),
         closed_trades  |-> Len(closed_pos),
         total_pnl      |-> SumPnl(th),
         win_rate       |-> IF wins + losses > 0 THEN Rat(wins, wins + losses)
                            ELSE RInt(0),
         wins           |-> wins,
         losses         |-> losses]

----------------------------------------------------------------------------

(* The record of the last call: what was called, with what, and how it     *)
(* ended (the value returned, the exception raised, the line logged).      *)

\*   op, outcome   the call and how it ended
\*   persist       what the environment did to the call's file writes
\*   market        scan: the market evaluated
\*   order         what the order backend answers for this market evaluation
\*   arg           __init__: the bankroll the constructor set before loading
\*   est, mp       scan: the model's estimate and the market's probability,
\*                 both for the affirmative side
\*   our, mkt, edge, side, token
\*                 the probabilities handed to the call or carried by the signal
\*   stake, kf, reason
\*                 the triple calculate_bet_size returned; for open_position
\*                 the stake passed in
\*   model         a weather estimate: the sub-model (WeatherSignal.market_type)
\*   idx, pnl      the position the call is about, and close_position's pnl;
\*                 for a sizing call on a given ledger, the number of open
\*                 positions and their total size
\*   closes        _calculate_rsi: the close series (idx is the period)
\*   stats         the dict get_stats returned
NoStats == get_stats(0, <<>>, <<>>)

Call(op, outcome) ==
    [op |-> op, outcome |-> outcome, persist |-> "ok", order |-> "not placed",
     arg |-> 0, est |-> 0, mp |-> 0, our |-> 0, mkt |-> 0, edge |-> 0,
     side |-> "", token |-> "", stake |-> 0, kf |-> RInt(0), reason |-> "",
     idx |-> 0, pnl |-> 0, model |-> "", market |-> "", closes |-> <<>>,
     stats |-> NoStats]

WithResult(call, r) ==
    [call EXCEPT !.stake = r.stake, !.kf = r.kf, !.reason = r.reason]

WithSignal(call, signal) ==
    [call EXCEPT !.our = signal.our_probability,
                 !.mkt = signal.market_probability,
                 !.edge = signal.edge,
                 !.side = signal.recommended_side,
                 !.token = signal.token_id]

----------------------------------------------------------------------------
(* RiskManager.open_position  (src/risk_manager.py:139-168)                *)

NewPosition(market_id, token_id, side, entry_price, size_usd, our_prob, market_prob, strategy, now) ==
    Position([market_id          |-> market_id,
              token_id           |-> token_id,
              side               |-> side,
              entry_price        |-> entry_price,
              size_usd           |-> size_usd,
              shares             |-> IF entry_price > 0
                                     THEN Rat(size_usd, entry_price)
                                     ELSE RInt(0),
              our_probability    |-> our_prob,
              market_probability |-> market_prob,
              edge               |-> our_prob - market_prob,
              kelly_fraction     |-> kelly_size(our_prob, market_prob,
                                                Pct(KELLY_FRACTION_PCT)),
              strategy           |-> strategy], now)

\* The effect of one open_position call on the ledger and the two files.
open_position(market_id, token_id, side, entry_price, size_usd, our_prob, market_prob, strategy, po) ==
    LET pos == NewPosition(market_id, token_id, side, entry_price, size_usd,
                           our_prob, market_prob, strategy, Now(clock))
    IN  /\ positions' = Append(positions, pos)
        /\ bankroll' = bankroll - size_usd
        /\ trade_history' = trade_history
        /\ journal' = _log_trade(journal, "OPEN", pos, <<>>, Now(clock + 1), po)
        /\ disk' = IF po = "journal_error" THEN disk   \* _log_trade raised
                   ELSE _save_state(disk, bankroll', positions',
                                    trade_history', po)
        /\ clock' = clock + 2
        /\ running' = (po # "crash")

----------------------------------------------------------------------------
(* RiskManager.close_position  (src/risk_manager.py:170-187)               *)

close_position(i, exit_price, pnl, reason, po) ==
    LET closed == [positions[i] EXCEPT !.status = "closed"]
        record == [action     |-> "CLOSE",
                   reason     |-> reason,
                   exit_price |-> exit_price,
                   pnl        |-> pnl,
                   position   |-> asdict(closed),
                   timestamp  |-> Now(clock)]
    IN  /\ positions' = [positions EXCEPT ![i] = closed]
        /\ bankroll' = bankroll + positions[i].size_usd + pnl
        /\ trade_history' = Append(trade_history, record)
        /\ journal' = _log_trade(journal, "CLOSE", closed,
                                 [pnl |-> pnl, reason |-> reason],
                                 Now(clock + 1), po)
        /\ disk' = IF po = "journal_error" THEN disk   \* _log_trade raised
                   ELSE _save_state(disk, bankroll', positions',
                                    trade_history', po)
        /\ clock' = clock + 2
        /\ running' = (po # "crash")

----------------------------------------------------------------------------
(* Edge and side selection                                                 *)

Clip(x, lo, hi) == IF x < lo THEN lo ELSE IF x > hi THEN hi ELSE x

Signal(market_id, token_id, side, our, mkt, edge) ==
    [market_id |-> market_id, token_id |-> token_id, recommended_side |-> side,
     our_probability |-> our, market_probability |-> mkt, edge |-> edge]

\* Mutant of BtcSelect: the NO side keeps the affirmative market probability.
BtcSelectKeepingMarket(market_id, token_id, our_prob, market_probability) ==
    LET edge == our_prob - market_probability
    IN  IF edge > 0
        THEN Signal(market_id, token_id, "YES", our_prob, market_probability, edge)
        ELSE IF (100 - our_prob) - (100 - market_probability) > MIN_EDGE_THRESHOLD
        THEN Signal(market_id, token_id, "NO", 100 - our_prob, market_probability,
                    (100 - our_prob) - market_probability)
        ELSE Signal(market_id, token_id, "YES", our_prob, market_probability, edge)

\* Mutant of BtcSelect: no fallback, NO whenever the edge is not positive.
BtcSelectWithoutFallback(market_id, token_id, our_prob, market_probability) ==
    LET edge == our_prob - market_probability
    IN  IF edge > 0
        THEN Signal(market_id, token_id, "YES", our_prob, market_probability, edge)
        ELSE Signal(market_id, token_id, "NO", 100 - our_prob,
                    100 - market_probability,
                    (100 - our_prob) - (100 - market_probability))

\* BTCStrategy.analyze_market, the side decision (src/btc_strategy.py:100-111)
BtcSelect(market_id, token_id, our_prob, market_probability) ==
    LET edge == our_prob - market_probability
    IN  IF edge > 0
        THEN Signal(market_id, token_id, "YES", our_prob, market_probability, edge)
        ELSE IF (100 - our_prob) - (100 - market_probability) > MIN_EDGE_THRESHOLD
        THEN Signal(market_id, token_id, "NO", 100 - our_prob,
                    100 - market_probability,
                    (100 - our_prob) - (100 - market_probability))
        ELSE Signal(market_id, token_id, "YES", our_prob, market_probability, edge)

\* Mutant of WeatherSelect: the BTC selector's threshold and fallback to YES.
WeatherSelectWithFallback(market_id, token_id, our_prob, market_prob) ==
    LET edge == our_prob - market_prob
    IN  IF edge > 0
        THEN Signal(market_id, token_id, "YES", our_prob, market_prob, edge)
        ELSE IF (100 - our_prob) - (100 - market_prob) > MIN_EDGE_THRESHOLD
        THEN Signal(market_id, token_id, "NO", 100 - our_prob, 100 - market_prob,
                    (100 - our_prob) - (100 - market_prob))
        ELSE Signal(market_id, token_id, "YES", our_prob, market_prob, edge)

\* WeatherStrategy._analyze_*_market, the side decision
\* (src/weather_strategy.py:140-145, 216-222, 290-296)
WeatherSelect(market_id, token_id, our_prob, market_prob) ==
    LET edge == our_prob - market_prob
    IN  IF edge > 0
        THEN Signal(market_id, token_id, "YES", our_prob, market_prob, edge)
        ELSE Signal(market_id, token_id, "NO", 100 - our_prob, 100 - market_prob,
                    (100 - our_prob) - (100 - market_prob))

\* The probability a strategy hands to its side decision: the model's raw
\* value clipped to [0.02, 0.98] (src/btc_strategy.py:221) or to
\* [0.05, 0.95] (src/weather_strategy.py:216).
Estimate(strategy, raw) ==
    IF strategy = "btc" THEN Clip(raw, 2, 98) ELSE Clip(raw, 5, 95)

Analyze(strategy, market_id, token_id, raw, market_prob) ==
    IF strategy = "btc"
    THEN BtcSelect(market_id, token_id, Estimate(strategy, raw), market_prob)
    ELSE WeatherSelect(market_id, token_id, Estimate(strategy, raw), market_prob)

\* The bot's edge filter (src/bot.py:142, 169)
EdgeFilter(signal) == Abs(signal.edge) >= MIN_EDGE_THRESHOLD

----------------------------------------------------------------------------
(* Probability estimators                                                  *)
(* Probabilities are rational numbers of percent.                          *)

RNeg(x) == <<0 - x[1], x[2]>>

\* np.clip(x, lo, hi) on a rational x, lo and hi whole.
ClipR(x, lo, hi) ==
    IF RLt(x, RInt(lo)) THEN RInt(lo) ELSE IF RLt(RInt(hi), x) THEN RInt(hi) ELSE x

\* f for direction "above", -f for "below"
Toward(direction, f) == IF direction = "above" THEN f ELSE RNeg(f)

BTC_RSI_OVERSOLD == 30

BTC_RSI_OVERBOUGHT == 70

\* Mutant of _estimate_probability: the sum is returned without the clip.
_estimate_probability_unclipped(base_prob, direction, rsi, vwap_deviation, momentum, order_flow) ==
    RAdd(RInt(base_prob), RAdd(Toward(direction, Rat(momentum * 10, 100)),
                               Toward(direction, RInt(order_flow * 3))))

\* BTCStrategy._estimate_probability  (src/btc_strategy.py:156-223)
\*   base_prob       1 - norm.cdf(z_score), percent: a value of [0, 100]
\*                   whatever the distance and the expected move are
\*   rsi             0..100
\*   vwap_deviation  (price - vwap) / vwap, in 1/10000
\*   momentum        in 1/10000
\*   order_flow      -1..1
_estimate_probability(base_prob, direction, rsi, vwap_deviation, momentum, order_flow) ==
    LET rsi_adj ==
            IF rsi < BTC_RSI_OVERSOLD
            THEN Toward(direction,
                        Rat(5 * (BTC_RSI_OVERSOLD - rsi), BTC_RSI_OVERSOLD))
            ELSE IF rsi > BTC_RSI_OVERBOUGHT
            THEN Toward(direction,
                        RNeg(Rat(5 * (rsi - BTC_RSI_OVERBOUGHT),
                                 100 - BTC_RSI_OVERBOUGHT)))
            ELSE RInt(0)
        vwap_adj ==
            IF Abs(vwap_deviation) > 10
            THEN Toward(direction, RNeg(Rat(vwap_deviation, 200)))
            ELSE RInt(0)
        mom_adj == Toward(direction, Rat(momentum * 10, 100))
        flow_adj == Toward(direction, RInt(order_flow * 3))
        adjustment == RAdd(RAdd(rsi_adj, vwap_adj), RAdd(mom_adj, flow_adj))
    IN  ClipR(RAdd(RInt(base_prob), adjustment), 2, 98)

RECURSIVE SeqMax(_)
SeqMax(s) ==
    IF Len(s) = 1 THEN s[1]
    ELSE LET m == SeqMax(Tail(s)) IN IF s[1] > m THEN s[1] ELSE m

RECURSIVE SeqMin(_)
SeqMin(s) ==
    IF Len(s) = 1 THEN s[1]
    ELSE LET m == SeqMin(Tail(s)) IN IF s[1] < m THEN s[1] ELSE m

RECURSIVE SeqSum(_)
SeqSum(s) == IF s = <<>> THEN 0 ELSE s[1] + SeqSum(Tail(s))

\* WeatherStrategy._analyze_temperature_market, the estimate
\* (src/weather_strategy.py:87, 109-138).  temp_f in degrees Fahrenheit,
\* temps the relevant forecast in tenths of a degree Celsius.  A margin of m
\* degrees contributes m / 2 * 0.2 = m / 10, that is one percent per tenth.
TemperatureProbability(temp_f, direction, temps) ==
    LET temp_c == Rat((temp_f - 32) * 50, 9)
        max_temp == RInt(SeqMax(temps))
        min_temp == RInt(SeqMin(temps))
        near(d) == RMin(d, RInt(40))
    IN  IF direction \in {"above", "hit"}
        THEN IF RLt(RAdd(temp_c, RInt(20)), max_temp) THEN RInt(90)
             ELSE IF RLt(temp_c, max_temp)
             THEN RAdd(RInt(50), near(RSub(max_temp, temp_c)))
             ELSE IF RLt(RSub(temp_c, RInt(20)), max_temp)
             THEN RSub(RInt(50), near(RSub(temp_c, max_temp)))
             ELSE RInt(10)
        ELSE IF RLt(min_temp, RSub(temp_c, RInt(20))) THEN RInt(90)
             ELSE IF RLt(min_temp, temp_c)
             THEN RAdd(RInt(50), near(RSub(temp_c, min_temp)))
             ELSE IF RLt(min_temp, RAdd(temp_c, RInt(20)))
             THEN RSub(RInt(50), near(RSub(min_temp, temp_c)))
             ELSE RInt(10)

\* Mutant of PrecipitationProbability: the estimate is not clipped.
PrecipitationProbabilityUnclipped(threshold_mm, probabilities, amounts) ==
    RAdd(Rat(7 * SeqMax(probabilities), 10),
         Rat(3 * SeqSum(probabilities), 10 * Len(probabilities)))

\* WeatherStrategy._analyze_precipitation_market, the estimate
\* (src/weather_strategy.py:195-216).  probabilities in percent, amounts and
\* threshold_mm in tenths of a millimetre; threshold_mm 0 is "no threshold".
PrecipitationProbability(threshold_mm, probabilities, amounts) ==
    LET max_precip_prob == RInt(SeqMax(probabilities))
        total_precip == SeqSum(amounts)
        avg_precip_prob == Rat(SeqSum(probabilities), Len(probabilities))
        our_prob ==
            IF threshold_mm # 0
            THEN IF 2 * total_precip > 3 * threshold_mm THEN RInt(85)
                 ELSE IF total_precip > threshold_mm THEN RInt(65)
                 ELSE IF 2 * total_precip > threshold_mm THEN RInt(35)
                 ELSE RInt(15)
            ELSE RAdd(RMul(max_precip_prob, Rat(7, 10)),
                      RMul(avg_precip_prob, Rat(3, 10)))
    IN  ClipR(our_prob, 5, 95)

\* WeatherStrategy._analyze_snow_market, the estimate
\* (src/weather_strategy.py:269-290).  snowfall in hundredths of a
\* centimetre, snow_threshold in inches (0 is "no threshold").
SnowProbability(snow_threshold, snowfall) ==
    LET total_snow_cm == SeqSum(snowfall)
        threshold_cm == 254 * snow_threshold
        our_prob ==
            IF snow_threshold # 0
            THEN IF 2 * total_snow_cm > 3 * threshold_cm THEN RInt(85)
                 ELSE IF total_snow_cm > threshold_cm THEN RInt(60)
                 ELSE IF 10 * total_snow_cm > 3 * threshold_cm THEN RInt(30)
                 ELSE RInt(10)
            ELSE IF total_snow_cm > 50
                 THEN RMin(RInt(90), Rat(total_snow_cm, 5))
                 ELSE RInt(10)
    IN  ClipR(our_prob, 5, 95)

----------------------------------------------------------------------------
(* Technical indicators  (src/btc_strategy.py:227-257)                     *)
(* Prices and volumes are whole numbers; an indicator is an exact rational.*)

BTC_RSI_PERIOD == 14

\* The last n elements of s: s[-n:] for 1 <= n (all of s when n >= len(s)).
LastN(s, n) == IF n >= Len(s) THEN s ELSE SubSeq(s, Len(s) - n + 1, Len(s))

\* np.diff(closes)
Diff(closes) ==
    IF Len(closes) < 2 THEN <<>>
    ELSE [i \in 1..(Len(closes) - 1) |-> closes[i + 1] - closes[i]]

\* Mutant of _calculate_rsi: the averages run over every delta of the series.
_calculate_rsi_whole_series(closes, period) ==
    IF Len(closes) < period + 1 THEN RInt(50)
    ELSE LET deltas == Diff(closes)
             gains == [i \in DOMAIN deltas |-> IF deltas[i] > 0 THEN deltas[i] ELSE 0]
             losses == [i \in DOMAIN deltas |-> IF deltas[i] < 0 THEN 0 - deltas[i] ELSE 0]
             avg_gain == Rat(SeqSum(gains), Len(gains))
             avg_loss == Rat(SeqSum(losses), Len(losses))
         IN  IF avg_loss = RInt(0) THEN RInt(100)
             ELSE RSub(RInt(100),
                       RDiv(RInt(100), RAdd(RInt(1), RDiv(avg_gain, avg_loss))))

\* BTCStrategy._calculate_rsi  (src/btc_strategy.py:227-243), period >= 1
_calculate_rsi(closes, period) ==
    IF Len(closes) < period + 1 THEN RInt(50)
    ELSE LET deltas == Diff(closes)
             gains == [i \in DOMAIN deltas |-> IF deltas[i] > 0 THEN deltas[i] ELSE 0]
             losses == [i \in DOMAIN deltas |-> IF deltas[i] < 0 THEN 0 - deltas[i] ELSE 0]
             avg_gain == Rat(SeqSum(LastN(gains, period)), period)
             avg_loss == Rat(SeqSum(LastN(losses, period)), period)
         IN  IF avg_loss = RInt(0) THEN RInt(100)
             ELSE RSub(RInt(100),
                       RDiv(RInt(100), RAdd(RInt(1), RDiv(avg_gain, avg_loss))))

\* The bars the volume-weighted average runs over: `min(60, len(...))`
VWAP_WINDOW == 60

\* BTCStrategy._calculate_vwap  (src/btc_strategy.py:245-257)
\* klines is a sequence of bars [high, low, close, volume].
_calculate_vwap(klines) ==
    LET used == LastN(klines, VWAP_WINDOW)
        vol == [i \in DOMAIN used |-> used[i].volume]
        tp_vol == [i \in DOMAIN used |->
                     (used[i].high + used[i].low + used[i].close) * used[i].volume]
        total_vol == SeqSum(vol)
    IN  IF total_vol = 0 THEN RInt(klines[Len(klines)].close)
        ELSE Rat(SeqSum(tp_vol), 3 * total_vol)

\* `(current_price - vwap) / vwap if vwap > 0 else 0`
\* (src/btc_strategy.py:80)
VwapDeviation(current_price, vwap) ==
    IF RLt(RInt(0), vwap) THEN RDiv(RSub(RInt(current_price), vwap), vwap)
    ELSE RInt(0)

----------------------------------------------------------------------------

(* Inputs                                                                  *)

\* The market a one-market catalogue returns, and a market's clobTokenIds[0]
\* ("" when the market lists none, as the weather markets here).
MarketOf(strategy) == IF strategy = "btc" THEN "btc-1" ELSE "wx-1"

TokenOf(market_id) ==
    CASE market_id = "btc-1" -> "tok-1"
      [] market_id = "btc-2" -> "tok-2"
      [] market_id = "btc-3" -> "tok-3"
      [] market_id = "btc-4" -> "tok-4"
      [] market_id = "btc-5" -> "tok-5"
      [] OTHER -> ""

\* <<raw model probability, market probability>> of one market evaluation;
\* <<>> in either place is None (no estimate, no market price).
BtcInputs == { <<<<65>>, <<50>>>>, <<<<35>>, <<53>>>>, <<<<50>>, <<53>>>>,
               <<<<52>>, <<50>>>>, <<<<65>>, <<100>>>>, <<<<>>, <<50>>>>,
               <<<<65>>, <<>>>> }

WeatherInputs == { <<<<40>>, <<53>>>>, <<<<50>>, <<50>>>>, <<<<>>, <<50>>>>,
                   <<<<40>>, <<>>>> }

\* calculate_bet_size(our_prob, market_prob) called on its own.
CalcInputs == { <<65, 50>>, <<52, 50>>, <<51, 47>> }

\* open_position called on its own: <<size_usd, our_prob, market_prob>>.
OpenInputs == { <<32983, 65, 50>> }

\* close_position's pnl for a position of stake s: a total loss, or a gain.
PnlInputs(s) == { -s, 17 }

\* RiskManager(bankroll): None, 0 or an amount.
BankrollArgs == { <<>>, <<0>>, <<10015>> }

----------------------------------------------------------------------------
(* Actions                                                                 *)

CanMutate == clock < 2 * MaxMutations

\* PollyBot.run's position: cycle number `cycle`, and within it the scan of
\* `strategy` ("" between two scans' loops) with `done` markets evaluated.
NoScan == [cycle |-> 0, strategy |-> "", done |-> 0]

Untouched == UNCHANGED <<running, paper, bankroll, positions, trade_history,
                         journal, disk, clock, started>>

\* RiskManager.__init__ of a new process (src/risk_manager.py:48-52)
Construct(arg) ==
    LET l == _load_state(disk, ConstructorBankroll(arg), Now(clock))
    IN  /\ bankroll' = l.bankroll
        /\ positions' = l.positions
        /\ trade_history' = l.trade_history
        /\ started' = [bankroll |-> l.bankroll, loaded |-> l.loaded]
        /\ running' = TRUE
        /\ lastCall' = [Call("init", IF l.loaded THEN "loaded"
                                     ELSE IF disk.kind = "absent" THEN "fresh"
                                     ELSE "load_failed")
                          EXCEPT !.arg = ConstructorBankroll(arg)]
        /\ scan' = NoScan
        /\ UNCHANGED <<paper, journal, disk, clock>>

\* The process ends (if it still runs) and a new one is started.
Restart == \E arg \in BankrollArgs : Construct(arg)

\* state.json as another writer left it: the snapshot with the field `edge`
\* missing from one position record, or with a key Position does not know.
ForeignSnapshots(file) ==
    { [file EXCEPT !.positions[i] = Without(file.positions[i], "edge")] :
         i \in 1..Len(file.positions) }
    \cup { [file EXCEPT !.positions[i] = file.positions[i] @@ [note |-> "x"]] :
              i \in 1..Len(file.positions) }

\* The process is stopped and state.json replaced by such a snapshot.
ReplaceSnapshot ==
    /\ running
    /\ disk.kind = "complete"
    /\ \E file \in ForeignSnapshots(disk) : disk' = file
    /\ running' = FALSE
    /\ lastCall' = Call("replace_snapshot", "stopped")
    /\ UNCHANGED <<paper, bankroll, positions, trade_history, journal, clock,
                   started, scan>>

\* open_position called directly, with a stake the bankroll covers.
OpenPosition(po) ==
    /\ running /\ CanMutate
    /\ \E a \in OpenInputs :
         /\ a[1] <= bankroll
         /\ open_position("btc-1", TokenOf("btc-1"), "YES", a[3], a[1], a[2],
                          a[3], "btc", po)
         /\ lastCall' = [Call("open_position", CallOutcome(po))
                           EXCEPT !.persist = po, !.our = a[2], !.mkt = a[3],
                                  !.stake = a[1], !.idx = Len(positions) + 1]
    /\ UNCHANGED <<paper, started, scan>>

\* close_position called directly on a position of the ledger.
ClosePosition(po) ==
    /\ running /\ CanMutate
    /\ \E i \in 1..Len(positions) :
         \E pnl \in PnlInputs(positions[i].size_usd) :
            /\ close_position(i, IF pnl > 0 THEN 100 ELSE 0, pnl, "resolved", po)
            /\ lastCall' = [Call("close_position", CallOutcome(po))
                              EXCEPT !.persist = po, !.idx = i, !.pnl = pnl]
    /\ UNCHANGED <<paper, started, scan>>

\* calculate_bet_size called directly.
CalculateBetSize ==
    /\ running
    /\ \E c \in CalcInputs :
         lastCall' = WithResult([Call("calculate_bet_size", "returned")
                                   EXCEPT !.our = c[1], !.mkt = c[2]],
                                calculate_bet_size(bankroll, positions, c[1], c[2]))
    /\ Untouched
    /\ UNCHANGED scan

\* get_stats called directly.
GetStats ==
    /\ running
    /\ lastCall' = [Call("get_stats", "returned")
                      EXCEPT !.stats = get_stats(bankroll, positions, trade_history)]
    /\ Untouched
    /\ UNCHANGED scan

\* What place_market_order returns, where _execute_signal can reach it:
\* a fill or a structured error (src/polymarket_client.py:186-203).
OrderResults == IF paper THEN {"not placed"} ELSE {"filled", "error"}

\* Mutant of OrderFailed: the structured error is not recognised.
OrderFailedNever(order) == FALSE

\* `"error" in result` (src/bot.py:221)
OrderFailed(order) == order = "error"

\* PollyBot._execute_signal  (src/bot.py:177-236)
\* `call` is the record of the market evaluation so far.
_execute_signal(call, signal, strategy, order, po) ==
    LET r == calculate_bet_size(bankroll, positions, signal.our_probability,
                                signal.market_probability)
        ended(outcome) == [WithResult(call, r) EXCEPT !.outcome = outcome]
        record(done) ==
            /\ open_position(signal.market_id, signal.token_id,
                             signal.recommended_side, signal.market_probability,
                             r.stake, signal.our_probability,
                             signal.market_probability, strategy, po)
            /\ lastCall' = [ended(CASE po = "ok" -> done
                                    [] po = "crash" -> "crashed"
                                    [] OTHER -> "error_logged")
                              EXCEPT !.idx = Len(positions) + 1]
            /\ UNCHANGED <<paper, started>>
    IN  IF r.reason # "" THEN lastCall' = ended("rejected") /\ Untouched
        ELSE IF paper THEN record("paper_recorded")
        ELSE IF signal.token_id = "" THEN lastCall' = ended("no_token") /\ Untouched
        ELSE IF OrderFailed(order)
        THEN lastCall' = ended("order_failed") /\ Untouched
        ELSE record("live_placed")

\* One iteration of the market loop of _run_btc_scan / _run_weather_scan
\* (src/bot.py:129-148, 156-175).
\* `in` is <<estimate, market probability>>, or with a third element the
\* exception analyze_market raises on this market.
ScanMarket(strategy, market_id, in, order, po) ==
    LET call == [Call(IF strategy = "btc" THEN "btc_scan" ELSE "weather_scan",
                      "scanning")
                   EXCEPT !.persist = po, !.order = order, !.market = market_id]
    IN  /\ running
        /\ IF in[2] = <<>>
           THEN lastCall' = [call EXCEPT !.outcome = "no_market_prob"] /\ Untouched
           ELSE IF Len(in) = 3
           THEN lastCall' = [call EXCEPT !.outcome = "error_logged"] /\ Untouched
           ELSE IF in[1] = <<>>
           THEN lastCall' = [call EXCEPT !.outcome = "no_signal"] /\ Untouched
           ELSE LET signal == Analyze(strategy, market_id, TokenOf(market_id),
                                      in[1][1], in[2][1])
                    seen == WithSignal([call EXCEPT
                                          !.est = Estimate(strategy, in[1][1]),
                                          !.mp = in[2][1]], signal)
                IN  IF EdgeFilter(signal)
                    THEN _execute_signal(seen, signal, strategy, order, po)
                    ELSE lastCall' = [seen EXCEPT !.outcome = "edge_too_small"]
                         /\ Untouched

\* A scan whose catalogue holds one market.
BtcScan(po) ==
    /\ CanMutate
    /\ \E in \in BtcInputs : \E order \in OrderResults :
          ScanMarket("btc", MarketOf("btc"), in, order, po)
    /\ UNCHANGED scan

WeatherScan(po) ==
    /\ CanMutate
    /\ \E in \in WeatherInputs : \E order \in OrderResults :
          ScanMarket("weather", MarketOf("weather"), in, order, po)
    /\ UNCHANGED scan

\* The k-th market of a strategy's catalogue.
CatalogueMarket(strategy, k) ==
    IF strategy = "btc"
    THEN <<"btc-1", "btc-2", "btc-3", "btc-4", "btc-5">>[k]
    ELSE <<"wx-1", "wx-2", "wx-3", "wx-4", "wx-5">>[k]

\* What the markets of the bot's loop show: a BTC market shows an estimate
\* 0.03 or 0.15 above the market (a stake of 3% of the bankroll, or one
\* capped at 5%); a weather market shows no signal, no market price, an edge
\* of 0, or makes analyze_market raise.
LoopInputs(strategy) ==
    IF strategy = "btc" THEN { <<<<53>>, <<50>>>>, <<<<65>>, <<50>>>> }
    ELSE { <<<<>>, <<50>>>>, <<<<40>>, <<>>>>, <<<<50>>, <<50>>>>,
           <<<<40>>, <<53>>, "TypeError">> }

\* One iteration of a market loop inside PollyBot.run (src/bot.py:92-121):
\* a cycle runs the BTC scan and then the weather scan, each over its whole
\* catalogue in order; the backend fills every live order.
RunScan(strategy, po) ==
    /\ running
    /\ \/ scan.strategy = strategy
       \/ strategy = "btc" /\ scan.strategy = "" /\ scan.cycle < MaxCycles
    /\ LET k == scan.done + 1
           cycle == IF scan.strategy = "" THEN scan.cycle + 1 ELSE scan.cycle
       IN  /\ \E in \in LoopInputs(strategy) :
                ScanMarket(strategy, CatalogueMarket(strategy, k), in,
                           IF paper THEN "not placed" ELSE "filled", po)
           /\ scan' = IF k < MaxMarkets
                      THEN [cycle |-> cycle, strategy |-> strategy, done |-> k]
                      ELSE [cycle |-> cycle,
                            strategy |-> IF strategy = "btc" THEN "weather" ELSE "",
                            done |-> 0]

RunBtcScan(po) == RunScan("btc", po)

RunWeatherScan(po) == RunScan("weather", po)

----------------------------------------------------------------------------
(* The pure functions, called on their own over a grid of arguments        *)

\* Probabilities in percent: every whole percent of [0, 1].
ProbGrid == 0..100

\* Arguments of kelly_size, the values just outside [0, 1] included.
KellyGrid == (0 - 1)..101

\* kelly_size's fraction argument: <<>> is None, <<f>> a percentage.
FractionArgs == { <<>>, <<25>>, <<100>> }

\* `if fraction is None: fraction = config.KELLY_FRACTION`
KellyFraction(arg) ==
    IF arg = <<>> THEN Pct(KELLY_FRACTION_PCT) ELSE Pct(arg[1])

\* A function is applied to the ledger as the constructor left it: a
\* behaviour of the function calls is one constructor and one call.
Constructed == lastCall.op = "init"

\* BTCStrategy.analyze_market's side decision applied to (p, m).
BtcSelectCall ==
    /\ Constructed
    /\ \E p \in ProbGrid, m \in ProbGrid :
         lastCall' = WithSignal([Call("BtcSelect", "returned")
                                   EXCEPT !.est = p, !.mp = m],
                                BtcSelect("btc-1", "tok-1", p, m))
    /\ Untouched
    /\ UNCHANGED scan

\* RiskManager.kelly_size(our_prob, market_prob, fraction)
KellySizeCall ==
    /\ Constructed
    /\ \E p \in KellyGrid, m \in KellyGrid, f \in FractionArgs :
         lastCall' = [Call("kelly_size", "returned")
                        EXCEPT !.our = p, !.mkt = m,
                               !.arg = KellyFraction(f),
                               !.kf = kelly_size(p, m, KellyFraction(f))]
    /\ Untouched
    /\ UNCHANGED scan

\* Ledgers calculate_bet_size is called on: `n` open positions of `size`
\* cents each, and the bankroll left beside them.
OpenLedger(n, size) ==
    [i \in 1..n |-> NewPosition("btc-1", "tok-1", "YES", 50, size, 65, 50, "btc", i)]

SizingLedgers ==
    { OpenLedger(0, 0), OpenLedger(1, 900), OpenLedger(1, 49950),
      OpenLedger(MAX_OPEN_POSITIONS, 100) }

SizingBankrolls == { 0, 1999, 2000, 10015, 100000 }

SizingGrid == { 0, 1, 2, 47, 49, 50, 51, 52, 53, 54, 60, 65, 98, 99, 100 }

\* RiskManager.calculate_bet_size(our_prob, market_prob) on a ledger with
\* bankroll b and positions ps.
SizeBetCall ==
    /\ Constructed
    /\ \E b \in SizingBankrolls, ps \in SizingLedgers,
          p \in SizingGrid, m \in SizingGrid :
         lastCall' = WithResult([Call("sizing", "returned")
                                   EXCEPT !.our = p, !.mkt = m, !.arg = b,
                                          !.idx = Len(OpenPositions(ps)),
                                          !.pnl = TotalExposure(ps)],
                                calculate_bet_size(b, ps, p, m))
    /\ Untouched
    /\ UNCHANGED scan

\* Arguments of _estimate_probability: <<current_price, base_prob,
\* direction, rsi, vwap_deviation, momentum, order_flow>>.
EstimateInputs ==
    { <<c, b, d, r, v, mo, f>> :
        c \in {0, 65000}, b \in {0, 1, 50, 99, 100}, d \in {"above", "below"},
        r \in {0, 50, 100}, v \in {0 - 500, 0, 500},
        mo \in {0 - 1000, 0, 1000}, f \in {0 - 1, 0, 1} }

\* BTCStrategy._estimate_probability called on its own.  A current price of
\* 0 raises ZeroDivisionError at `distance = ... / current_price`.
EstimateCall ==
    /\ Constructed
    /\ \E a \in EstimateInputs :
         lastCall' =
            IF a[1] = 0 THEN Call("_estimate_probability", "raised")
            ELSE [Call("_estimate_probability", "returned")
                    EXCEPT !.est = _estimate_probability(a[2], a[3], a[4], a[5],
                                                         a[6], a[7]),
                           !.arg = a[2]]
    /\ Untouched
    /\ UNCHANGED scan

\* Forecasts: hourly temperatures (tenths of a degree Celsius), hourly
\* precipitation probabilities (percent) and amounts (tenths of a mm),
\* hourly snowfall (hundredths of a cm).
TemperatureForecasts ==
    { <<100, 150>>, <<250, 280>>, <<295, 310>>, <<300, 300>>, <<330, 350>> }

PrecipitationForecasts ==
    { <<<<0, 0>>, <<0, 0>>>>, <<<<100, 100>>, <<90, 40>>>>,
      <<<<50, 30>>, <<10, 6>>>>, <<<<90, 70>>, <<30, 30>>>> }

SnowForecasts == { <<0, 0>>, <<30, 25>>, <<200, 200>>, <<1500, 1500>> }

\* The estimate of every sub-model over these forecasts, tagged by model.
WeatherEstimates ==
    { <<"temperature", TemperatureProbability(f, d, ts)>> :
         f \in {50, 86}, d \in {"above", "hit", "below"},
         ts \in TemperatureForecasts }
    \cup { <<"precipitation", PrecipitationProbability(th, fc[1], fc[2])>> :
         th \in {0, 50}, fc \in PrecipitationForecasts }
    \cup { <<"snow", SnowProbability(th, fc)>> :
         th \in {0, 1}, fc \in SnowForecasts }

MarketGrid == { 0, 4, 5, 50, 95, 96, 100 }

\* A weather sub-model's estimate and, where the estimate is a whole percent
\* (the unit of a signal's fields), the signal built from it.
WeatherEstimateCall ==
    /\ Constructed
    /\ \E e \in WeatherEstimates, m \in MarketGrid :
         LET call == [Call("weather_estimate", "estimated")
                        EXCEPT !.est = e[2], !.mp = m, !.model = e[1]]
         IN  lastCall' =
                IF e[2][2] = 1
                THEN WithSignal([call EXCEPT !.outcome = "returned"],
                                WeatherSelect("wx-1", "", e[2][1], m))
                ELSE call
    /\ Untouched
    /\ UNCHANGED scan

\* Close series for _calculate_rsi: every series of at most MaxBars closes
\* over three prices, and series of n closes that start at 1000 and move by
\* the steps of a pattern.
RsiPatterns ==
    {"rising", "flat", "falling", "dip_first", "dip_last", "zigzag", "late_rise"}

StepOf(pattern, i, n) ==
    CASE pattern = "rising"    -> 1
      [] pattern = "flat"      -> 0
      [] pattern = "falling"   -> 0 - 1
      [] pattern = "dip_first" -> IF i = 1 THEN 0 - 5 ELSE 1
      [] pattern = "dip_last"  -> IF i = n - 1 THEN 0 - 1 ELSE 1
      [] pattern = "zigzag"    -> IF i % 2 = 0 THEN 2 ELSE 0 - 1
      [] pattern = "late_rise" -> IF i = n - 1 THEN 1 ELSE 0

RECURSIVE CloseAt(_, _, _)
CloseAt(pattern, i, n) ==
    IF i = 1 THEN 1000 ELSE CloseAt(pattern, i - 1, n) + StepOf(pattern, i - 1, n)

ClosesOf(pattern, n) == [i \in 1..n |-> CloseAt(pattern, i, n)]

\* <<closes, period>>
RsiInputs ==
    { <<c, p>> : c \in UNION { [1..n -> {1, 2, 3}] : n \in 0..MaxBars },
                 p \in 1..3 }
    \cup { <<ClosesOf(pat, n), p>> :
              pat \in RsiPatterns, n \in {14, 15, 16, 20},
              p \in {1, 2, BTC_RSI_PERIOD} }

\* BTCStrategy._calculate_rsi(closes, period) called on its own.
RsiCall ==
    /\ Constructed
    /\ \E a \in RsiInputs :
         lastCall' = [Call("_calculate_rsi", "returned")
                        EXCEPT !.closes = SubSeq(a[1], 1, Len(a[1])), !.idx = a[2],
                               !.est = _calculate_rsi(a[1], a[2])]
    /\ Untouched
    /\ UNCHANGED scan

\* Bars [high, low, close, volume] and kline windows of n bars, the first k
\* of them `a` and the others `b`.
Bars ==
    { [high |-> 65100, low |-> 64900, close |-> 65000, volume |-> v] : v \in {0, 3} }
    \cup { [high |-> 65400, low |-> 65000, close |-> 65200, volume |-> v] : v \in {0, 1} }

Klines(n, k, a, b) == [i \in 1..n |-> IF i <= k THEN a ELSE b]

KlineWindows ==
    { Klines(n, k, a, b) : n \in {19, 20, 70}, k \in {0, 10}, a \in Bars, b \in Bars }

CurrentPrices == { 64000, 65000, 65100 }

\* `if klines is None or len(klines) < 20: return None`
MIN_KLINES == 20

\* BTCStrategy.analyze_market up to the volume-weighted deviation feature
\* (src/btc_strategy.py:64-80): the current price comes from the ticker, the
\* bars from the kline feed.
VwapCall ==
    /\ Constructed
    /\ \E current_price \in CurrentPrices, klines \in KlineWindows :
         lastCall' =
            IF Len(klines) < MIN_KLINES THEN Call("vwap_deviation", "no_signal")
            ELSE LET vwap == _calculate_vwap(klines)
                     used == LastN(klines, VWAP_WINDOW)
                 IN  [Call("vwap_deviation", "returned")
                        EXCEPT !.arg = current_price,
                               !.idx = SeqSum([i \in DOMAIN used |-> used[i].volume]),
                               !.stake = klines[Len(klines)].close,
                               !.est = vwap,
                               !.edge = VwapDeviation(current_price, vwap)]
    /\ Untouched
    /\ UNCHANGED scan

----------------------------------------------------------------------------
(* Specifications                                                          *)

Init ==
    /\ running = TRUE
    /\ paper \in BOOLEAN
    /\ positions = <<>>
    /\ trade_history = <<>>
    /\ journal = <<>>
    /\ disk = NoFile
    /\ clock = 0
    /\ scan = NoScan
    /\ \E arg \in BankrollArgs :
         /\ bankroll = ConstructorBankroll(arg)
         /\ started = [bankroll |-> bankroll, loaded |-> FALSE]
         /\ lastCall = [Call("init", "fresh") EXCEPT !.arg = bankroll]

\* Persistence works: every journal append and snapshot write succeeds.
Next ==
    \/ Restart
    \/ OpenPosition("ok")
    \/ ClosePosition("ok")
    \/ CalculateBetSize
    \/ BtcScan("ok")
    \/ WeatherScan("ok")

Spec == Init /\ [][Next]_vars

\* The environment may fail a write or kill the process during one.
NextFaults ==
    \/ Restart
    \/ /\ clock < 2 * MaxFaultMutations
       /\ \E po \in PersistOutcomes :
            \/ OpenPosition(po)
            \/ ClosePosition(po)
            \/ BtcScan(po)
            \/ WeatherScan(po)

SpecFaults == Init /\ [][NextFaults]_vars

\* The pure functions applied to their arguments.
NextFunctions ==
    \/ BtcSelectCall
    \/ KellySizeCall
    \/ SizeBetCall
    \/ EstimateCall
    \/ WeatherEstimateCall
    \/ RsiCall
    \/ VwapCall

SpecFunctions == Init /\ [][NextFunctions]_vars

\* The bot's loop, persistence working.
NextScans ==
    \/ RunBtcScan("ok")
    \/ RunWeatherScan("ok")

SpecScans == Init /\ [][NextScans]_vars

\* The bot's loop, where a write of the first MaxFaultMutations ledger
\* mutations may fail, or the process die in one.
ScanPersistOutcomes ==
    IF clock < 2 * MaxFaultMutations THEN PersistOutcomes ELSE {"ok"}

NextScanFaults ==
    \E po \in ScanPersistOutcomes :
        \/ RunBtcScan(po)
        \/ RunWeatherScan(po)

SpecScanFaults == Init /\ [][NextScanFaults]_vars

\* The ledger driven by open_position and close_position calls, reloaded by
\* a restart, and read by get_stats.
NextStats ==
    \/ Restart
    \/ OpenPosition("ok")
    \/ ClosePosition("ok")
    \/ GetStats

SpecStats == Init /\ [][NextStats]_vars

\* Every position is opened by a scan, with the stake calculate_bet_size
\* approved at the current bankroll; positions are closed with a pnl of
\* PnlInputs, which is never below -size_usd; the process may restart.
NextSized ==
    \/ Restart
    \/ ClosePosition("ok")
    \/ BtcScan("ok")
    \/ WeatherScan("ok")

SpecSized == Init /\ [][NextSized]_vars

\* Startup over the snapshots the program wrote and over foreign ones.
NextLoad ==
    \/ Restart
    \/ OpenPosition("ok")
    \/ ClosePosition("ok")
    \/ ReplaceSnapshot

SpecLoad == Init /\ [][NextLoad]_vars

----------------------------------------------------------------------------
(* Claims                                                                  *)

Mutations == {"open_position", "close_position"}

Scans == {"btc_scan", "weather_scan"}

\* The pnl of the first close recorded for the position created at `ts`.
FirstClosePnl(ts) ==
    LET k == CHOOSE n \in 1..Len(trade_history) :
                /\ trade_history[n].position.timestamp = ts
                /\ \A m \in 1..(n - 1) : trade_history[m].position.timestamp # ts
    IN  trade_history[k].pnl

\* Sum over the closed positions, each once, of size_usd + pnl.
RECURSIVE ClosedCredit(_)
ClosedCredit(ps) ==
    IF ps = <<>> THEN 0
    ELSE (IF Head(ps).status = "closed"
          THEN Head(ps).size_usd + FirstClosePnl(Head(ps).timestamp)
          ELSE 0) + ClosedCredit(Tail(ps))

\* C1: on a RiskManager that started with bankroll B0 and an empty ledger,
\* the bankroll is B0 minus the stakes of all positions ever opened plus
\* size_usd + pnl of the closed positions, each closed position counted once.
C1_BankrollConservation ==
    ~started.loaded =>
        bankroll = started.bankroll - SumSize(positions) + ClosedCredit(positions)

\* C2: closed (and expired) are terminal: no step changes the status of a
\* position that is not open, and a close_position call on such a position
\* changes neither its status nor the bankroll.
C2_TerminalStatus ==
    [][\A i \in 1..Len(positions) :
          positions[i].status # "open" =>
             /\ i <= Len(positions') => positions'[i].status = positions[i].status
             /\ (lastCall'.op = "close_position" /\ lastCall'.idx = i)
                   => bankroll' = bankroll]_vars

\* C3: the stake calculate_bet_size returns (after its final rounding) never
\* exceeds bankroll x MAX_SINGLE_BET_PCT.
C3_SingleBetCap ==
    lastCall.op = "calculate_bet_size" =>
        100 * lastCall.stake <= MAX_SINGLE_BET_PCT * bankroll

\* C4: when calculate_bet_size approves a stake, open exposure plus the stake
\* is at most half the bankroll at the time of the call; it rejects for
\* exposure only when the headroom is below MIN_BET_SIZE_USD.
C4_ExposureCap ==
    lastCall.op = "calculate_bet_size" =>
        /\ lastCall.reason = "" =>
              100 * (TotalExposure(positions) + lastCall.stake)
                 <= EXPOSURE_CAP_PCT * bankroll
        /\ lastCall.reason = "total exposure" =>
              EXPOSURE_CAP_PCT * bankroll - 100 * TotalExposure(positions)
                 < 100 * MIN_BET_SIZE_USD

\* C5: in live mode, when the order backend answers with a structured error
\* or the signal carries no token id, the market evaluation opens nothing:
\* positions, bankroll, trade history and snapshot are unchanged.
C5_FailedOrderOpensNothing ==
    [][(/\ lastCall'.op \in Scans
        /\ ~paper
        /\ lastCall'.order = "error" \/ lastCall'.token = "")
          => UNCHANGED <<positions, bankroll, trade_history, disk>>]_vars

\* A live order that the sizer approved and the backend refused.
C5_Witness ==
    /\ ~paper
    /\ lastCall.op = "btc_scan"
    /\ lastCall.outcome = "order_failed"
    /\ lastCall.order = "error"
    /\ lastCall.stake >= MIN_BET_SIZE_USD

\* C6: a failed journal append or snapshot write does not abort
\* open_position / close_position: the call still returns normally.
C6_PersistenceFailureTolerated ==
    (lastCall.op \in Mutations
        /\ lastCall.persist \in {"journal_error", "snapshot_error"})
      => lastCall.outcome = "returned"

\* C7: whatever happens during a ledger mutation, state.json afterwards is
\* the complete previous snapshot or a complete new one.
C7_SnapshotAtomic == [][disk' = disk \/ disk'.kind = "complete"]_vars

CompletedMutation ==
    \/ lastCall.op \in Mutations /\ lastCall.outcome = "returned"
    \/ lastCall.op \in Scans /\ lastCall.outcome \in {"paper_recorded", "live_placed"}

\* C8: after every completed open_position or close_position the snapshot on
\* disk holds the bankroll, the positions in order with their statuses, and
\* the trade history of the in-memory ledger.
C8_SnapshotMatchesLedger ==
    CompletedMutation =>
        /\ disk.kind = "complete"
        /\ disk.bankroll = bankroll
        /\ Len(disk.positions) = Len(positions)
        /\ \A i \in 1..Len(positions) :
              \A f \in DOMAIN positions[i] : disk.positions[i][f] = positions[i][f]
        /\ disk.trade_history = trade_history

\* A close, after two opens, has just been saved.
C8_Witness ==
    /\ lastCall.op = "close_position"
    /\ lastCall.outcome = "returned"
    /\ Len(positions) >= 2
    /\ Len(trade_history) >= 1
    /\ disk.kind = "complete"

\* C9: a RiskManager constructed over the snapshot of a saved ledger has that
\* ledger's bankroll and its positions, in order and field for field,
\* whatever bankroll its constructor was given.
C9_RoundTrip ==
    [][(/\ lastCall'.op = "init"
        /\ disk = StateDocument(bankroll, positions, trade_history))
          => /\ bankroll' = bankroll
             /\ positions' = positions]_vars

\* A ledger with a closed and an open position was reloaded by a constructor
\* that was given another bankroll.
C9_Witness ==
    /\ lastCall.op = "init"
    /\ lastCall.outcome = "loaded"
    /\ lastCall.arg # bankroll
    /\ \E i, j \in 1..Len(positions) :
          positions[i].status = "closed" /\ positions[j].status = "open"

\* C10: a position opened by a market evaluation of a scan carries the
\* probabilities of its recommended side (the complements for NO), and its
\* edge = our_probability - market_probability is at least
\* MIN_EDGE_THRESHOLD; a signal whose edge is below the threshold opens nothing.
C10_OpenedEdgeAtLeastThreshold ==
    [][lastCall'.op \in Scans =>
         /\ Len(positions') > Len(positions) =>
               LET p == positions'[Len(positions')]
               IN  /\ p.edge = p.our_probability - p.market_probability
                   /\ p.edge >= MIN_EDGE_THRESHOLD
                   /\ p.side = lastCall'.side
                   /\ IF p.side = "YES"
                      THEN /\ p.our_probability = lastCall'.est
                           /\ p.market_probability = lastCall'.mp
                      ELSE /\ p.our_probability = 100 - lastCall'.est
                           /\ p.market_probability = 100 - lastCall'.mp
         /\ lastCall'.edge < MIN_EDGE_THRESHOLD =>
               UNCHANGED <<positions, bankroll>>]_vars

\* A scan opened a position on the NO side.
C10_Witness ==
    /\ lastCall.op = "btc_scan"
    /\ lastCall.outcome \in {"paper_recorded", "live_placed"}
    /\ lastCall.side = "NO"
    /\ positions[lastCall.idx].side = "NO"
    /\ positions[lastCall.idx].edge >= MIN_EDGE_THRESHOLD

\* C11: the BTC selector, given the estimate p and the market probability m
\* of the affirmative side: YES with p, m and p - m when p - m > 0; otherwise
\* NO with the complements and the complementary edge when that edge exceeds
\* MIN_EDGE_THRESHOLD; otherwise YES with p, m and the non-positive p - m.
\* In every case edge = our_probability - market_probability.
C11_BtcSelector ==
    lastCall.op = "BtcSelect" =>
        LET p == lastCall.est
            m == lastCall.mp
        IN  /\ lastCall.edge = lastCall.our - lastCall.mkt
            /\ IF p - m > 0
               THEN /\ lastCall.side = "YES"
                    /\ lastCall.our = p /\ lastCall.mkt = m
                    /\ lastCall.edge = p - m
               ELSE IF m - p > MIN_EDGE_THRESHOLD
               THEN /\ lastCall.side = "NO"
                    /\ lastCall.our = 100 - p /\ lastCall.mkt = 100 - m
                    /\ lastCall.edge = m - p
               ELSE /\ lastCall.side = "YES"
                    /\ lastCall.our = p /\ lastCall.mkt = m
                    /\ lastCall.edge = p - m /\ lastCall.edge <= 0

\* The fallback: the complementary edge equals the threshold, so the selector
\* recommends YES with a negative edge.
C11_Witness ==
    /\ lastCall.op = "BtcSelect"
    /\ lastCall.est = 50 /\ lastCall.mp = 53
    /\ lastCall.side = "YES"
    /\ lastCall.edge = 0 - MIN_EDGE_THRESHOLD

\* C12: kelly_size returns exactly 0 when our_prob or market_prob is outside
\* (0, 1), when the net odds are not positive, and when the full Kelly
\* fraction (p - m) / (1 - m) is not positive; its result is never negative.
C12_KellyZero ==
    lastCall.op = "kelly_size" =>
        LET p == lastCall.our
            m == lastCall.mkt
        IN  /\ (p <= 0 \/ p >= 100 \/ m <= 0 \/ m >= 100 \/ p <= m)
                  => lastCall.kf = <<0, 1>>
            /\ lastCall.kf[1] >= 0 /\ lastCall.kf[2] > 0

\* kelly_size was called with a probability outside (0, 1), and with a market
\* priced above the estimate.
C12_Witness ==
    /\ lastCall.op = "kelly_size"
    /\ lastCall.kf = <<0, 1>>
    /\ \/ lastCall.mkt = 101 /\ lastCall.our = 60
       \/ lastCall.mkt = 50 /\ lastCall.our = 40

\* C13: for p and m in (0, 1) with a positive full Kelly fraction, kelly_size
\* returns fraction x (p - m) / (1 - m), which is fraction x (p b - (1 - p)) / b
\* for b = 1/m - 1; for p = 0.6, m = 0.5, fraction = 0.5 the result is 0.1.
C13_KellyValue ==
    lastCall.op = "kelly_size" =>
        LET p == lastCall.our
            m == lastCall.mkt
            f == lastCall.arg
        IN  /\ (0 < p /\ p < 100 /\ 0 < m /\ m < 100 /\ p > m)
                  => /\ lastCall.kf[2] > 0
                     /\ lastCall.kf[1] * f[2] * (100 - m)
                           = f[1] * (p - m) * lastCall.kf[2]
            /\ (p = 60 /\ m = 50 /\ f = <<1, 2>>) => lastCall.kf = <<1, 10>>

\* kelly_size(0.6, 0.5) with the configured half-Kelly fraction.
C13_Witness ==
    /\ lastCall.op = "kelly_size"
    /\ lastCall.our = 60 /\ lastCall.mkt = 50
    /\ lastCall.arg = <<1, 2>>
    /\ lastCall.kf = <<1, 10>>

\* C14: from an empty ledger with bankroll 1000, calculate_bet_size(0.65, 0.50)
\* approves a stake of exactly 50 (fractional Kelly 0.15, capped to 5% of
\* 1000), and opening the position with that stake leaves bankroll 950 and
\* exactly one open position of size 50.
C14_EndToEnd ==
    [][(/\ bankroll = 100000 /\ positions = <<>>
        /\ lastCall'.our = 65 /\ lastCall'.mkt = 50)
          => /\ lastCall'.op = "calculate_bet_size"
                  => /\ lastCall'.stake = 5000
                     /\ lastCall'.kf = <<3, 20>>
                     /\ lastCall'.reason = ""
             /\ (lastCall'.op \in Scans
                   /\ lastCall'.outcome \in {"paper_recorded", "live_placed"})
                  => /\ lastCall'.stake = 5000
                     /\ lastCall'.kf = <<3, 20>>
                     /\ bankroll' = 95000
                     /\ Len(positions') = 1
                     /\ positions'[1].size_usd = 5000
                     /\ positions'[1].status = "open"]_vars

\* The scenario ran: the first position of a fresh ledger of 1000 was opened
\* by a scan at 0.65 against 0.50.
C14_Witness ==
    /\ lastCall.op = "btc_scan"
    /\ lastCall.outcome = "paper_recorded"
    /\ lastCall.our = 65 /\ lastCall.mkt = 50
    /\ lastCall.stake = 5000
    /\ bankroll = 95000
    /\ Len(positions) = 1

\* C15: calculate_bet_size returns a stake of at least MIN_BET_SIZE_USD with
\* an empty reason, or a stake of 0 with a non-empty reason; the reason is
\* non-empty exactly when the stake is 0; and it rejects whenever the edge is
\* below MIN_EDGE_THRESHOLD, the Kelly fraction is not positive, or the capped
\* stake is below MIN_BET_SIZE_USD.
C15_StakeOrReason ==
    lastCall.op = "sizing" =>
        LET p == lastCall.our
            m == lastCall.mkt
            b == lastCall.arg
            no_kelly == ~(0 < p /\ p < 100 /\ 0 < m /\ m < 100 /\ p > m)
            \* bankroll x fraction x (p - m) / (1 - m) < minimum
            small_kelly == b * KELLY_FRACTION_PCT * (p - m)
                              < MIN_BET_SIZE_USD * 100 * (100 - m)
            small_cap == b * MAX_SINGLE_BET_PCT < MIN_BET_SIZE_USD * 100
        IN  /\ lastCall.reason = "" => lastCall.stake >= MIN_BET_SIZE_USD
            /\ lastCall.reason # "" <=> lastCall.stake = 0
            /\ (p - m < MIN_EDGE_THRESHOLD \/ no_kelly \/ small_kelly \/ small_cap)
                  => lastCall.reason # ""

\* A bet with a positive Kelly fraction whose capped stake (5% of 19.99) is
\* below the minimum was rejected, and one capped at exactly the minimum
\* would be approved from 20.00.
C15_Witness ==
    /\ lastCall.op = "sizing"
    /\ lastCall.arg = 1999
    /\ lastCall.our = 65 /\ lastCall.mkt = 50
    /\ lastCall.kf = <<3, 20>>
    /\ lastCall.stake = 0
    /\ lastCall.reason = "below minimum"

\* C17: the probability _estimate_probability returns is within [0.02, 0.98]
\* for every price, target, direction and feature vector.
C17_BtcEstimateBounded ==
    (lastCall.op = "_estimate_probability" /\ lastCall.outcome = "returned")
        => /\ RLe(RInt(2), lastCall.est)
           /\ RLe(lastCall.est, RInt(98))

\* A base probability of 1 with upward adjustments was clipped to 0.98.
C17_Witness ==
    /\ lastCall.op = "_estimate_probability"
    /\ lastCall.outcome = "returned"
    /\ lastCall.arg = 100
    /\ lastCall.est = <<98, 1>>

\* C18: the estimate of every weather sub-model is within [0.05, 0.95], and
\* so is the our_probability of the signal built from it, after a possible
\* swap to the NO side.
C18_WeatherEstimateBounded ==
    lastCall.op = "weather_estimate" =>
        /\ RLe(RInt(5), lastCall.est)
        /\ RLe(lastCall.est, RInt(95))
        /\ lastCall.outcome = "returned"
              => (5 <= lastCall.our /\ lastCall.our <= 95)

\* A precipitation estimate clipped to 0.95 lost to a market at 0.96: the
\* signal recommends NO with our_probability 0.05.
C18_Witness ==
    /\ lastCall.op = "weather_estimate"
    /\ lastCall.outcome = "returned"
    /\ lastCall.model = "precipitation"
    /\ lastCall.est = <<95, 1>>
    /\ lastCall.side = "NO"
    /\ lastCall.our = 5

\* The market evaluation got as far as a signal.
SignalEmitted ==
    /\ lastCall.op \in Scans
    /\ lastCall.outcome \notin {"no_market_prob", "no_signal"}

\* C19: our_probability and market_probability of every emitted signal, and
\* of every position in the ledger, are strictly between 0 and 1, whatever
\* market probability in [0, 1] the venue supplies.
C19_ProbabilitiesInsideUnitInterval ==
    /\ SignalEmitted =>
          /\ 0 < lastCall.our /\ lastCall.our < 100
          /\ 0 < lastCall.mkt /\ lastCall.mkt < 100
    /\ \A i \in 1..Len(positions) :
          /\ 0 < positions[i].our_probability
          /\ positions[i].our_probability < 100
          /\ 0 < positions[i].market_probability
          /\ positions[i].market_probability < 100

\* The market evaluation handed its signal to _execute_signal.
SignalExecuted ==
    /\ lastCall.op \in Scans
    /\ lastCall.outcome \notin {"no_market_prob", "no_signal", "edge_too_small"}
    /\ ~(lastCall.outcome = "error_logged" /\ lastCall.persist = "ok")

\* C16: calculate_bet_size rejects whenever MAX_OPEN_POSITIONS positions are
\* open, so in a run of scan cycles the number of open positions never
\* exceeds MAX_OPEN_POSITIONS.
C16_OpenPositionsLimit ==
    [][/\ Len(OpenPositions(positions')) <= MAX_OPEN_POSITIONS
       /\ (Len(OpenPositions(positions)) >= MAX_OPEN_POSITIONS /\ SignalExecuted')
             => /\ lastCall'.outcome = "rejected"
                /\ lastCall'.stake = 0
                /\ lastCall'.reason # ""
                /\ UNCHANGED <<positions, bankroll>>]_vars

\* The limit was reached by scans and the next signal was refused for it.
C16_Witness ==
    /\ Len(OpenPositions(positions)) = MAX_OPEN_POSITIONS
    /\ lastCall.op = "btc_scan"
    /\ lastCall.outcome = "rejected"
    /\ lastCall.reason = "max open positions"

\* The market evaluation was abandoned: no market probability, no signal, or
\* an exception logged by the loop.
Skipped ==
    /\ lastCall.op \in Scans
    /\ lastCall.outcome \in {"no_market_prob", "no_signal", "error_logged"}

\* C20: a market of a scan whose data is unavailable or whose evaluation
\* raises is skipped: the ledger is not mutated by it, and the loop goes on
\* to the remaining markets of the scan, which are evaluated in order.
C20_SkippedMarket ==
    [][/\ lastCall'.op \in Scans
             => lastCall'.market =
                   CatalogueMarket(IF lastCall'.op = "btc_scan" THEN "btc"
                                   ELSE "weather", scan.done + 1)
       /\ Skipped'
             => /\ UNCHANGED <<bankroll, positions, trade_history, journal, disk>>
                /\ running'
                /\ scan'.done = (IF scan.done + 1 < MaxMarkets
                                 THEN scan.done + 1 ELSE 0)]_vars

\* C21: the journal is append-only and gets exactly one record per ledger
\* mutation, in mutation order; every open and every close also gets a
\* trade_history entry, and the journal record has the fields of that entry
\* (action, timestamp, position and, for a close, exit_price, pnl, reason).
C21_JournalMirrorsHistory ==
    [][/\ Len(journal) <= Len(journal')
       /\ SubSeq(journal', 1, Len(journal)) = journal
       /\ clock' = clock => Len(journal') = Len(journal)
       /\ clock' # clock =>
             /\ Len(journal') = Len(journal) + 1
             /\ Len(trade_history') = Len(trade_history) + 1
             /\ LET j == journal'[Len(journal')]
                    h == trade_history'[Len(trade_history')]
                IN  /\ DOMAIN j = DOMAIN h
                    /\ j.action = h.action
                    /\ j.position = h.position]_vars

\* C22: _calculate_rsi returns exactly 50 when fewer than period + 1 closes
\* are supplied, exactly 100 when all of the last `period` close-to-close
\* deltas are non-negative and at least one is positive, and otherwise a
\* value of [0, 100].
C22_MomentumOscillator ==
    lastCall.op = "_calculate_rsi" =>
        LET closes == lastCall.closes
            period == lastCall.idx
            n == Len(closes)
            window == (n - period)..(n - 1)
            rsi == lastCall.est
        IN  /\ n < period + 1 => rsi = <<50, 1>>
            /\ (/\ n >= period + 1
                /\ \A i \in window : closes[i + 1] >= closes[i]
                /\ \E i \in window : closes[i + 1] > closes[i])
                  => rsi = <<100, 1>>
            /\ RLe(RInt(0), rsi) /\ RLe(rsi, RInt(100))

\* Sixteen closes whose only fall is the first delta, outside the window of
\* the last 14: the oscillator is 100.
C22_Witness ==
    /\ lastCall.op = "_calculate_rsi"
    /\ lastCall.idx = BTC_RSI_PERIOD
    /\ Len(lastCall.closes) = 16
    /\ lastCall.closes[2] < lastCall.closes[1]
    /\ lastCall.est = <<100, 1>>

\* C23: when the total volume of the bars the volume-weighted average uses
\* is 0, the volume-weighted deviation feature of analyze_market is 0,
\* whatever the current price.
C23_ZeroVolumeDeviation ==
    (lastCall.op = "vwap_deviation" /\ lastCall.outcome = "returned"
        /\ lastCall.idx = 0)
      => lastCall.edge = <<0, 1>>

\* C24: after any sequence of open_position and close_position calls,
\* get_stats reports open_positions = the number of open positions,
\* total_exposure = the sum of their size_usd, total_pnl = the sum of the pnl
\* of all closes, and wins + losses = closed_trades = the number of closed
\* positions, a close being a win iff its pnl > 0; and get_stats changes no
\* ledger state.
C24_StatsMatchLedger ==
    [][lastCall'.op = "get_stats" =>
         LET stats == lastCall'.stats
         IN  /\ UNCHANGED <<bankroll, positions, trade_history, journal, disk>>
             /\ stats.open_positions = Len(OpenPositions(positions))
             /\ stats.total_exposure = TotalExposure(positions)
             /\ stats.total_pnl = SumPnl(trade_history)
             /\ stats.closed_trades
                   = Cardinality({i \in 1..Len(positions) :
                                     positions[i].status = "closed"})
             /\ stats.wins
                   = Cardinality({i \in 1..Len(trade_history) :
                                     trade_history[i].pnl > 0})
             /\ stats.wins + stats.losses = stats.closed_trades]_vars

C26_OneOpenPositionPerMarket ==
    \A i, j \in 1..Len(positions) :
        (/\ i # j
         /\ positions[i].status = "open"
         /\ positions[j].status = "open")
           => positions[i].market_id # positions[j].market_id

\* C27: the bankroll is never negative in a run in which every opened stake
\* is one calculate_bet_size approved at the then-current bankroll and every
\* close has pnl >= -size_usd of the closed position.
C27_BankrollNotNegative == bankroll >= 0

\* A position sized by calculate_bet_size was closed at a total loss.
C27_Witness ==
    /\ lastCall.op = "close_position"
    /\ lastCall.pnl = 0 - positions[lastCall.idx].size_usd
    /\ positions[lastCall.idx].size_usd >= MIN_BET_SIZE_USD
    /\ bankroll < started.bankroll

\* C28: loading the snapshot at startup is all-or-nothing: when reading or
\* decoding it fails at any step, the RiskManager has the constructor's
\* bankroll, no positions and no trade history.
C28_LoadAllOrNothing ==
    (lastCall.op = "init" /\ lastCall.outcome = "load_failed")
        => /\ bankroll = lastCall.arg
           /\ positions = <<>>
           /\ trade_history = <<>>

\* The exposure headroom 0.5 x bankroll - total exposure is below
\* MIN_BET_SIZE_USD.
NoHeadroom ==
    EXPOSURE_CAP_PCT * bankroll - 100 * TotalExposure(positions)
        < 100 * MIN_BET_SIZE_USD

\* C29: in the scan loop no position is closed or expired and the number of
\* open positions never decreases; once it has reached MAX_OPEN_POSITIONS, or
\* the exposure headroom is below MIN_BET_SIZE_USD, every later signal is
\* rejected and bankroll and ledger stay as they are from then on.
C29_SaturatedLedgerStays ==
    [][/\ Len(positions') >= Len(positions)
       /\ \A i \in 1..Len(positions) : positions'[i] = positions[i]
       /\ \A i \in 1..Len(positions') : positions'[i].status = "open"
       /\ (Len(OpenPositions(positions)) >= MAX_OPEN_POSITIONS \/ NoHeadroom)
             => /\ UNCHANGED <<bankroll, positions, trade_history, journal, disk>>
                /\ SignalExecuted' => lastCall'.outcome = "rejected"
                /\ Len(OpenPositions(positions')) >= MAX_OPEN_POSITIONS
                      \/ NoHeadroom']_vars

\* With fewer than MAX_OPEN_POSITIONS positions open the headroom was used up,
\* and the next signal was rejected for it.
C29_Witness ==
    /\ lastCall.op = "btc_scan"
    /\ lastCall.outcome = "rejected"
    /\ lastCall.reason = "total exposure"
    /\ Len(OpenPositions(positions)) < MAX_OPEN_POSITIONS
    /\ NoHeadroom

\* C30: a signal of a weather sub-model has edge >= 0 and
\* edge = our_probability - market_probability for its side; the side is YES
\* exactly when the affirmative edge is > 0, and otherwise NO with both
\* probabilities complemented, whatever the size of the edge.
C30_WeatherSideByEdgeSign ==
    (lastCall.op = "weather_estimate" /\ lastCall.outcome = "returned") =>
        LET affirmative == lastCall.est[1] - lastCall.mp
        IN  /\ lastCall.edge >= 0
            /\ lastCall.edge = lastCall.our - lastCall.mkt
            /\ lastCall.side = (IF affirmative > 0 THEN "YES" ELSE "NO")
            /\ lastCall.side = "YES" =>
                  /\ lastCall.our = lastCall.est[1]
                  /\ lastCall.mkt = lastCall.mp
            /\ lastCall.side = "NO" =>
                  /\ lastCall.our = 100 - lastCall.est[1]
                  /\ lastCall.mkt = 100 - lastCall.mp

\* A sub-model's estimate is at or below the market price by no more than
\* MIN_EDGE_THRESHOLD, and its signal recommends NO.
C30_Witness ==
    /\ lastCall.op = "weather_estimate"
    /\ lastCall.outcome = "returned"
    /\ lastCall.est[1] - lastCall.mp <= 0
    /\ lastCall.mp - lastCall.est[1] <= MIN_EDGE_THRESHOLD
    /\ lastCall.side = "NO"
    /\ lastCall.edge = lastCall.mp - lastCall.est[1]

=============================================================================
